---- MODULE Spec2Model ----
(***************************************************************************)
(* A model of src/src/main.rs: a small expression language with two        *)
(* evaluation modes, interpret (direct) and stage + run (staged), whose    *)
(* let-binding is a binder function over a shared mutable variable cell.   *)
(***************************************************************************)
EXTENDS Integers, Sequences, FiniteSets, TLC

(***************************************************************************)
(* Bounds of the model.                                                    *)
(***************************************************************************)
\* NumVal.v is an i64; the model keeps two's-complement arithmetic at a
\* width TLC's integers can hold.
IntBits == 5
\* Cap on the number of elaborations (interpret and stage calls) of the
\* program's expression; it caps var_counter (an i32 in the source) too.
MaxElabs == 2
\* Cap on the number of run calls made on one staged tree.
MaxRuns == 2

MinInt == -(2 ^ (IntBits - 1))
MaxInt == (2 ^ (IntBits - 1)) - 1

(***************************************************************************)
(* Value domain: NumVal, BoolVal, and the outcome of a panicking call.     *)
(***************************************************************************)
NumVal(n) == [kind |-> "Num", v |-> n]
BoolVal(b) == [kind |-> "Bool", v |-> IF b THEN 1 ELSE 0]
Panic == [kind |-> "Panic", v |-> 0]

\* #[derive(Default)]: NumVal { v: 0 }, BoolVal { v: false }
Default(ty) == IF ty = "Num" THEN NumVal(0) ELSE BoolVal(FALSE)

\* Val::get
get(val) == IF val.kind = "Bool" THEN val.v = 1 ELSE val.v

\* The build profiles of the program: `+` on i64 panics on overflow in a
\* debug build and wraps in a release build.
Builds == {"debug", "release"}

Wrap(n) == ((n - MinInt) % (2 ^ IntBits)) + MinInt

\* impl Add for NumVal: self.v + rhs.v
add(a, b, bld) ==
    LET s == a.v + b.v
    IN  IF s >= MinInt /\ s =< MaxInt THEN NumVal(s)
        ELSE IF bld = "debug" THEN Panic
        ELSE NumVal(Wrap(s))

\* derived PartialOrd on NumVal, as used by LessThanExp
lt(a, b) == BoolVal(a.v < b.v)

(***************************************************************************)
(* Expression nodes.  A binder function is a closure: it is modelled by    *)
(* its label bid and the body it builds, in which Param(bid) stands for    *)
(* the use of the argument as a subexpression (box v) and Read(bid) for a  *)
(* constant built from the argument's content at the time of the call      *)
(* (unit_exp(v.interpret())).                                              *)
(***************************************************************************)
unit_exp(val) == [k |-> "Const", val |-> val]
add_exp(e1, e2) == [k |-> "Add", e1 |-> e1, e2 |-> e2]
lt_exp(e1, e2) == [k |-> "Lt", e1 |-> e1, e2 |-> e2]
let_exp(ty, e1, bid, body) ==
    [k |-> "Let", ty |-> ty, e1 |-> e1, bid |-> bid, body |-> body]
VariableExp(id, cell) == [k |-> "Var", id |-> id, cell |-> cell]
Param(x) == [k |-> "Param", x |-> x]
Read(x) == [k |-> "Read", x |-> x]
ReadVar(cell) == [k |-> "ReadVar", cell |-> cell]

\* The staged nodes.
ConstantStagedExp(val) == [k |-> "ConstS", val |-> val]
AddStagedExp(s1, s2) == [k |-> "AddS", s1 |-> s1, s2 |-> s2]
LessThanStagedExp(s1, s2) == [k |-> "LtS", s1 |-> s1, s2 |-> s2]
LetStagedExp(s1, var, s2) == [k |-> "LetS", s1 |-> s1, var |-> var, s2 |-> s2]

(***************************************************************************)
(* The machine state m threaded through a call: the heap of variable       *)
(* cells (a cell is the position of its record in heap, as an Rc is its    *)
(* allocation), the global var_counter, the number of invocations of each  *)
(* binder function, the events of the call so far, and the build.          *)
(***************************************************************************)
Ev(ev, bid, cell, val) == [ev |-> ev, bid |-> bid, cell |-> cell, val |-> val]

Ret(m, r) == [m |-> m, r |-> r]

IsPanic(x) == x.r.kind = "Panic"

\* fresh that hands out the one cell allocated first instead of a new one.
fresh_shared(ty, m) ==
    IF Len(m.heap) = 0
    THEN Ret([m EXCEPT !.var_counter = @ + 1,
                       !.heap = <<[id |-> m.var_counter + 1, val |-> Default(ty)]>>,
                       !.log = Append(@, Ev("alloc", 0, 1, Default(ty)))],
             VariableExp(m.var_counter + 1, 1))
    ELSE Ret([m EXCEPT !.var_counter = @ + 1],
             VariableExp(m.var_counter + 1, 1))

\* fresh that leaves in the new cell what the cell allocated before it holds.
fresh_stale(ty, m) ==
    LET id == m.var_counter + 1
        cell == Len(m.heap) + 1
        v == IF Len(m.heap) = 0 THEN Default(ty) ELSE m.heap[Len(m.heap)].val
    IN  Ret([m EXCEPT !.var_counter = id,
                      !.heap = Append(@, [id |-> id, val |-> v]),
                      !.log = Append(@, Ev("alloc", 0, cell, v))],
            VariableExp(id, cell))

\* VariableExp::fresh
fresh(ty, m) ==
    LET id == m.var_counter + 1
        cell == Len(m.heap) + 1
    IN  Ret([m EXCEPT !.var_counter = id,
                      !.heap = Append(@, [id |-> id, val |-> Default(ty)]),
                      !.log = Append(@, Ev("alloc", 0, cell, Default(ty)))],
            VariableExp(id, cell))

\* fresh_with_val that drops its argument and seeds the default.
fresh_with_val_default(v, m) ==
    LET id == m.var_counter + 1
        cell == Len(m.heap) + 1
    IN  Ret([m EXCEPT !.var_counter = id,
                      !.heap = Append(@, [id |-> id, val |-> Default(v.kind)]),
                      !.log = Append(@, Ev("alloc", 0, cell, Default(v.kind)))],
            VariableExp(id, cell))

\* VariableExp::fresh_with_val
fresh_with_val(v, m) ==
    LET id == m.var_counter + 1
        cell == Len(m.heap) + 1
    IN  Ret([m EXCEPT !.var_counter = id,
                      !.heap = Append(@, [id |-> id, val |-> v]),
                      !.log = Append(@, Ev("alloc", 0, cell, v))],
            VariableExp(id, cell))

\* RefCell::borrow().clone() on a variable's cell
borrow(var, m) == m.heap[var.cell].val

\* replace that puts the value in a newly allocated cell.
replace_alloc(var, v, m) ==
    [m EXCEPT !.var_counter = @ + 1,
              !.heap = Append(@, [id |-> m.var_counter + 1, val |-> v]),
              !.log = Append(@, Ev("replace", 0, Len(m.heap) + 1, v))]

\* replace that writes to a copy: the shared cell keeps its content.
replace_lost(var, v, m) ==
    [m EXCEPT !.log = Append(@, Ev("replace", 0, var.cell, v))]

\* RefCell::replace on a variable's cell
replace(var, v, m) ==
    [m EXCEPT !.heap[var.cell].val = v,
              !.log = Append(@, Ev("replace", 0, var.cell, v))]

\* The body a binder function builds from its argument var: uses of the
\* argument become references to var's cell; a read of the argument made
\* by the closure being called (top) yields a constant of the cell's
\* present content, a read inside a closure it creates happens when that
\* closure is called.
RECURSIVE Inst(_, _, _, _, _)
Inst(t, x, var, m, top) ==
    CASE t.k = "Param" -> IF t.x = x THEN var ELSE t
      [] t.k = "Read" ->
            IF t.x # x THEN t
            ELSE IF top THEN unit_exp(borrow(var, m))
            ELSE ReadVar(var.cell)
      [] t.k = "ReadVar" ->
            IF top THEN unit_exp(m.heap[t.cell].val) ELSE t
      [] t.k \in {"Add", "Lt"} ->
            [t EXCEPT !.e1 = Inst(t.e1, x, var, m, top),
                      !.e2 = Inst(t.e2, x, var, m, top)]
      [] t.k = "Let" ->
            [t EXCEPT !.e1 = Inst(t.e1, x, var, m, top),
                      !.body = Inst(t.body, x, var, m, FALSE)]
      [] OTHER -> t

\* The binder function called a second time for the same body.
Invoke_twice(e, var, m) ==
    Ret([m EXCEPT !.calls[e.bid] = @ + 2,
                  !.log = Append(@, Ev("invoke", e.bid, var.cell, borrow(var, m)))],
        Inst(e.body, e.bid, var, m, TRUE))

\* (self.exp2)(var): one invocation of the binder function of the Let e.
Invoke(e, var, m) ==
    Ret([m EXCEPT !.calls[e.bid] = @ + 1,
                  !.log = Append(@, Ev("invoke", e.bid, var.cell, borrow(var, m)))],
        Inst(e.body, e.bid, var, m, TRUE))

Note(m, ev, bid, cell, val) == [m EXCEPT !.log = Append(@, Ev(ev, bid, cell, val))]

RECURSIVE interpret(_, _)

\* interpret that allocates a default cell, invokes the binder function and
\* only then writes the bound value into the cell.
interpret_late(e, m) ==
    CASE e.k = "Const" -> Ret(m, e.val)
      [] e.k = "Var" -> Ret(m, borrow(e, m))
      [] e.k \in {"Add", "Lt"} ->
            LET a == interpret(e.e1, m)
            IN  IF IsPanic(a) THEN a
                ELSE LET b == interpret(e.e2, a.m)
                     IN  IF IsPanic(b) THEN b
                         ELSE Ret(b.m, IF e.k = "Add" THEN add(a.r, b.r, m.build)
                                                      ELSE lt(a.r, b.r))
      [] e.k = "Let" ->
            LET a == interpret(e.e1, m)
            IN  IF IsPanic(a) THEN a
                ELSE LET f == fresh(e.ty, Note(a.m, "bound", e.bid, 0, a.r))
                         g == Invoke(e, f.r, f.m)
                         w == replace(f.r, a.r, g.m)
                     IN  interpret(g.r, Note(w, "body", e.bid, f.r.cell,
                                             borrow(f.r, w)))

\* Exp::interpret, for ConstantExp, VariableExp, AddExp, LessThanExp, LetExp
interpret(e, m) ==
    CASE e.k = "Const" -> Ret(m, e.val)
      [] e.k = "Var" -> Ret(m, borrow(e, m))
      [] e.k \in {"Add", "Lt"} ->
            LET a == interpret(e.e1, m)
            IN  IF IsPanic(a) THEN a
                ELSE LET b == interpret(e.e2, a.m)
                     IN  IF IsPanic(b) THEN b
                         ELSE Ret(b.m, IF e.k = "Add" THEN add(a.r, b.r, m.build)
                                                      ELSE lt(a.r, b.r))
      [] e.k = "Let" ->
            LET a == interpret(e.e1, m)
            IN  IF IsPanic(a) THEN a
                ELSE LET f == fresh_with_val(a.r, Note(a.m, "bound", e.bid, 0, a.r))
                         g == Invoke(e, f.r, f.m)
                     IN  interpret(g.r, Note(g.m, "body", e.bid, f.r.cell,
                                             borrow(f.r, g.m)))

RECURSIVE stage(_, _)

\* stage that evaluates the bound expression and seeds the cell with it.
stage_seeded(e, m) ==
    CASE e.k = "Const" -> Ret(m, ConstantStagedExp(e.val))
      [] e.k = "Var" -> Ret(m, e)
      [] e.k \in {"Add", "Lt"} ->
            LET a == stage(e.e1, m)
                b == stage(e.e2, a.m)
            IN  Ret(b.m, IF e.k = "Add" THEN AddStagedExp(a.r, b.r)
                                        ELSE LessThanStagedExp(a.r, b.r))
      [] e.k = "Let" ->
            LET v == interpret(e.e1, m).r
                f == fresh_with_val(IF v.kind = "Panic" THEN Default(e.ty) ELSE v, m)
                g == Invoke(e, f.r, f.m)
                s2 == stage(g.r, g.m)
                s1 == stage(e.e1, s2.m)
            IN  Ret(s1.m, LetStagedExp(s1.r, f.r, s2.r))

\* Exp::stage
stage(e, m) ==
    CASE e.k = "Const" -> Ret(m, ConstantStagedExp(e.val))
      [] e.k = "Var" -> Ret(m, e)
      [] e.k \in {"Add", "Lt"} ->
            LET a == stage(e.e1, m)
                b == stage(e.e2, a.m)
            IN  Ret(b.m, IF e.k = "Add" THEN AddStagedExp(a.r, b.r)
                                        ELSE LessThanStagedExp(a.r, b.r))
      [] e.k = "Let" ->
            LET f == fresh(e.ty, m)
                g == Invoke(e, f.r, f.m)
                s2 == stage(g.r, g.m)
                s1 == stage(e.e1, s2.m)
            IN  Ret(s1.m, LetStagedExp(s1.r, f.r, s2.r))

RECURSIVE run(_, _)

\* run that executes the staged body of a Let before it seeds the cell.
run_body_first(s, m) ==
    CASE s.k = "ConstS" -> Ret(m, s.val)
      [] s.k = "Var" -> Ret(m, borrow(s, m))
      [] s.k \in {"AddS", "LtS"} ->
            LET a == run(s.s1, m)
            IN  IF IsPanic(a) THEN a
                ELSE LET b == run(s.s2, a.m)
                     IN  IF IsPanic(b) THEN b
                         ELSE Ret(b.m, IF s.k = "AddS" THEN add(a.r, b.r, m.build)
                                                       ELSE lt(a.r, b.r))
      [] s.k = "LetS" ->
            LET h == run(s.s2, Note(m, "body", 0, s.var.cell, borrow(s.var, m)))
            IN  IF IsPanic(h) THEN h
                ELSE LET a == run(s.s1, h.m)
                     IN  IF IsPanic(a) THEN a
                         ELSE Ret(replace(s.var, a.r, a.m), h.r)

\* StagedExp::run
run(s, m) ==
    CASE s.k = "ConstS" -> Ret(m, s.val)
      [] s.k = "Var" -> Ret(m, borrow(s, m))
      [] s.k \in {"AddS", "LtS"} ->
            LET a == run(s.s1, m)
            IN  IF IsPanic(a) THEN a
                ELSE LET b == run(s.s2, a.m)
                     IN  IF IsPanic(b) THEN b
                         ELSE Ret(b.m, IF s.k = "AddS" THEN add(a.r, b.r, m.build)
                                                       ELSE lt(a.r, b.r))
      [] s.k = "LetS" ->
            LET a == run(s.s1, m)
            IN  IF IsPanic(a) THEN a
                ELSE LET w == replace(s.var, a.r, a.m)
                     IN  run(s.s2, Note(w, "body", 0, s.var.cell, borrow(s.var, w)))

(***************************************************************************)
(* The expressions the embedding code builds.                              *)
(***************************************************************************)
Num(n) == unit_exp(NumVal(n))

\* main: let v = 1 + 2 in v + 5
MainExp == let_exp("Num", add_exp(Num(1), Num(2)), 1, add_exp(Param(1), Num(5)))

\* let v = 5 in v + 3
Let58Exp == let_exp("Num", Num(5), 1, add_exp(Param(1), Num(3)))

\* let x = 1 in let y = x + 1 in x + y
NestedExp ==
    let_exp("Num", Num(1), 1,
            let_exp("Num", add_exp(Param(1), Num(1)), 2,
                    add_exp(Param(1), Param(2))))

\* let v = 5 in v + c, where the binder computes the constant c from the
\* content it reads in v when it is called
ReadExp == let_exp("Num", Num(5), 1, add_exp(Param(1), Read(1)))

\* i64::MAX + 1
OverflowExp == add_exp(Num(MaxInt), Num(1))

Catalogue ==
    { MainExp, Let58Exp, NestedExp, ReadExp,
      \* let x = 2 in (let y = 5 in y) + x
      let_exp("Num", Num(2), 1,
              add_exp(let_exp("Num", Num(5), 2, Param(2)), Param(1))),
      \* (let x = 1 in x) + (let y = 2 in y)
      add_exp(let_exp("Num", Num(1), 1, Param(1)),
              let_exp("Num", Num(2), 2, Param(2))),
      \* let y = (let x = 2 in x + 1) in y + y
      let_exp("Num", let_exp("Num", Num(2), 1, add_exp(Param(1), Num(1))), 2,
              add_exp(Param(2), Param(2))),
      \* let x = 1 in x < 5, and let b = 1 < 2 in b
      let_exp("Num", Num(1), 1, lt_exp(Param(1), Num(5))),
      let_exp("Bool", lt_exp(Num(1), Num(2)), 1, Param(1)),
      \* let b = 1 < 2 in let x = 3 in b
      let_exp("Bool", lt_exp(Num(1), Num(2)), 1,
              let_exp("Num", Num(3), 2, Param(1))),
      \* overflow in the bound expression, and in the body
      let_exp("Num", OverflowExp, 1, Param(1)),
      let_exp("Num", Num(MaxInt), 1, add_exp(Param(1), Num(1))),
      let_exp("Num", Num(MinInt), 1, add_exp(Param(1), Num(-1))),
      \* an inner binder that reads the outer variable, and a boolean read
      let_exp("Num", Num(5), 1,
              let_exp("Num", Num(1), 2, add_exp(Param(2), Read(1)))),
      let_exp("Bool", lt_exp(Num(1), Num(2)), 1, Read(1)) }

\* Every expression of one node, or of one operator over leaves.
LeafNums == {Num(0), Num(1), Num(MaxInt)}

Small ==
    LeafNums
    \cup {add_exp(a, b) : a \in LeafNums, b \in LeafNums}
    \cup {lt_exp(a, b) : a \in LeafNums, b \in LeafNums}
    \cup {let_exp("Num", a, 1, b) :
            a \in LeafNums, b \in LeafNums \cup {Param(1), Read(1)}}

Programs == Catalogue \cup Small

\* The labels of the binder functions of an expression.
RECURSIVE BidsOf(_)
BidsOf(e) ==
    CASE e.k \in {"Add", "Lt"} -> BidsOf(e.e1) \cup BidsOf(e.e2)
      [] e.k = "Let" -> {e.bid} \cup BidsOf(e.e1) \cup BidsOf(e.body)
      [] OTHER -> {}

(***************************************************************************)
(* The state of one execution of the program.                              *)
(***************************************************************************)
VARIABLES
    prog,          \* the expression tree built by the embedding code
    build,         \* the build profile of the executable
    pc,            \* "ready", or "panicked" once a call has panicked
    var_counter,   \* static mut var_counter
    heap,          \* the variable cells allocated so far
    binder_calls,  \* the counter each binder function increments
    staged,        \* the staged trees built, with the runs made on each
    interp,        \* the interpret calls made and their results
    log,           \* the events of the last call
    last           \* the last call and its outcome

vars == <<prog, build, pc, var_counter, heap, binder_calls, staged, interp,
          log, last>>

Init ==
    /\ prog \in Programs
    /\ build \in Builds
    /\ pc = "ready"
    /\ var_counter = 0
    /\ heap = <<>>
    /\ binder_calls = [b \in BidsOf(prog) |-> 0]
    /\ staged = <<>>
    /\ interp = [n |-> 0, results |-> {}]
    /\ log = <<>>
    /\ last = [op |-> "none", i |-> 0, r |-> Panic]

\* The machine state at the start of a call.
M == [heap |-> heap, var_counter |-> var_counter, calls |-> binder_calls,
      log |-> <<>>, build |-> build]

Commit(m) ==
    /\ heap' = m.heap
    /\ var_counter' = m.var_counter
    /\ binder_calls' = m.calls
    /\ log' = m.log

Elabs == interp.n + Len(staged)

\* prog.interpret()
Interpret ==
    /\ pc = "ready"
    /\ Elabs < MaxElabs
    /\ LET x == interpret(prog, M)
       IN  /\ Commit(x.m)
           /\ interp' = [n |-> interp.n + 1, results |-> interp.results \cup {x.r}]
           /\ pc' = IF IsPanic(x) THEN "panicked" ELSE "ready"
           /\ last' = [op |-> "interpret", i |-> 0, r |-> x.r]
    /\ UNCHANGED <<prog, build, staged>>

\* prog.stage()
Stage ==
    /\ pc = "ready"
    /\ Elabs < MaxElabs
    /\ LET x == stage(prog, M)
       IN  /\ Commit(x.m)
           /\ staged' = Append(staged, [tree |-> x.r, runs |-> 0, results |-> {}])
           /\ last' = [op |-> "stage", i |-> Len(staged) + 1, r |-> Panic]
    /\ UNCHANGED <<prog, build, pc, interp>>

\* staged[i].run()
Run(i) ==
    /\ pc = "ready"
    /\ staged[i].runs < MaxRuns
    /\ LET x == run(staged[i].tree, M)
       IN  /\ Commit(x.m)
           /\ staged' = [staged EXCEPT ![i].runs = @ + 1,
                                       ![i].results = @ \cup {x.r}]
           /\ pc' = IF IsPanic(x) THEN "panicked" ELSE "ready"
           /\ last' = [op |-> "run", i |-> i, r |-> x.r]
    /\ UNCHANGED <<prog, build, interp>>

Next ==
    \/ Interpret
    \/ Stage
    \/ \E i \in 1..Len(staged) : Run(i)

Spec == Init /\ [][Next]_vars

(***************************************************************************)
(* Definitions the properties are stated with.                             *)
(***************************************************************************)
\* Some binder function of e reads its argument while it builds the body.
RECURSIVE HasRead(_)
HasRead(e) ==
    CASE e.k = "Read" -> TRUE
      [] e.k \in {"Add", "Lt"} -> HasRead(e.e1) \/ HasRead(e.e2)
      [] e.k = "Let" -> HasRead(e.e1) \/ HasRead(e.body)
      [] OTHER -> FALSE

\* The number of Let nodes one elaboration of e goes through.
RECURSIVE NumLets(_)
NumLets(e) ==
    CASE e.k \in {"Add", "Lt"} -> NumLets(e.e1) + NumLets(e.e2)
      [] e.k = "Let" -> 1 + NumLets(e.e1) + NumLets(e.body)
      [] OTHER -> 0

\* The results of all run calls made so far, and of all calls.
RunResults == UNION {staged[i].results : i \in 1..Len(staged)}
AllResults == interp.results \cup RunResults

\* A reference evaluator: the value of e with each variable bound, in the
\* environment env, to the value of its bound expression.
RECURSIVE Eval(_, _)
Eval(e, env) ==
    CASE e.k = "Const" -> e.val
      [] e.k = "Param" -> env[e.x]
      [] e.k \in {"Add", "Lt"} ->
            LET a == Eval(e.e1, env)
                b == Eval(e.e2, env)
            IN  IF a.kind = "Panic" THEN a
                ELSE IF b.kind = "Panic" THEN b
                ELSE IF e.k = "Add" THEN add(a, b, build)
                ELSE BoolVal(a.v < b.v)
      [] e.k = "Let" ->
            LET v == Eval(e.e1, env)
            IN  IF v.kind = "Panic" THEN v
                ELSE Eval(e.body, [env EXCEPT ![e.bid] = v])

EmptyEnv == [b \in BidsOf(prog) |-> Panic]

(***************************************************************************)
(* C1  Cross-mode equivalence.                                             *)
(***************************************************************************)
\* C1 as stated: for every expression tree of Constant, Addition, LessThan
\* and Let nodes and every binder function, each result of interpret equals
\* each result of run on a staged form of the same tree.
C1_CrossModeAnyBinder ==
    \A a \in interp.results : \A b \in RunResults : a = b

\* C1 amended: the same, for the trees whose binder functions use their
\* variable only as a subexpression of the body and never read its cell
\* while they build the body.
C1_CrossModeEquivalence ==
    ~HasRead(prog) => \A a \in interp.results : \A b \in RunResults : a = b

C1_Witness ==
    /\ prog = NestedExp
    /\ interp.results = {NumVal(3)}
    /\ RunResults = {NumVal(3)}

(***************************************************************************)
(* C2  The binder function is invoked once by stage, never by run.         *)
(***************************************************************************)
\* C2: a stage call invokes each binder function of the tree exactly once,
\* a run call invokes none, so after one stage and any number of runs each
\* binder function has been invoked once.
C2_BinderInvokedOnce ==
    /\ [](interp.n = 0 /\ Len(staged) = 1
            => \A b \in BidsOf(prog) : binder_calls[b] = 1)
    /\ [][/\ Len(staged') = Len(staged) + 1
                => \A b \in BidsOf(prog) : binder_calls'[b] = binder_calls[b] + 1
          /\ last'.op = "run" => binder_calls' = binder_calls]_vars

C2_Witness ==
    /\ prog = NestedExp
    /\ interp.n = 0
    /\ Len(staged) = 1
    /\ staged[1].runs = MaxRuns
    /\ \A b \in BidsOf(prog) : binder_calls[b] = 1

(***************************************************************************)
(* C3  Let against the reference evaluator.                                *)
(***************************************************************************)
\* C3: when the binder functions use their variable only as a subexpression
\* of the body, interpret and run(stage) both give the value of the body
\* with the variable bound to the value of the bound expression; the nested
\* let gives 3 and let v = 5 in v + 3 gives 8.
C3_LetSemantics ==
    /\ ~HasRead(prog) => \A r \in AllResults : r = Eval(prog, EmptyEnv)
    /\ prog = NestedExp => \A r \in AllResults : r = NumVal(3)
    /\ prog = Let58Exp => \A r \in AllResults : r = NumVal(8)

C3_Witness ==
    /\ prog = Let58Exp
    /\ NumVal(8) \in interp.results
    /\ NumVal(8) \in RunResults

(***************************************************************************)
(* C4  Running a staged tree again gives the same result.                  *)
(***************************************************************************)
\* C4: all the run calls made on one staged tree return the same result.
C4_RerunIdempotent ==
    \A i \in 1..Len(staged) : Cardinality(staged[i].results) =< 1

C4_Witness ==
    \E i \in 1..Len(staged) :
        /\ staged[i].tree.k = "LetS"
        /\ staged[i].runs >= 2
        /\ staged[i].results = {NumVal(8)}

(***************************************************************************)
(* C5  Addition of two constants.                                          *)
(***************************************************************************)
\* C5: for an Addition of two Constants a and b, interpret and run(stage)
\* both return a + b, and no call fails.
C5_AdditionTotal ==
    (prog.k = "Add" /\ prog.e1.k = "Const" /\ prog.e2.k = "Const")
        => \A r \in AllResults : r = NumVal(prog.e1.val.v + prog.e2.val.v)

\* The cells the staged Lets of a staged tree write to, the number of its
\* staged Lets, and all the cells it refers to.
RECURSIVE LetCells(_)
LetCells(s) ==
    CASE s.k \in {"AddS", "LtS"} -> LetCells(s.s1) \cup LetCells(s.s2)
      [] s.k = "LetS" -> {s.var.cell} \cup LetCells(s.s1) \cup LetCells(s.s2)
      [] OTHER -> {}

RECURSIVE NumLetS(_)
NumLetS(s) ==
    CASE s.k \in {"AddS", "LtS"} -> NumLetS(s.s1) + NumLetS(s.s2)
      [] s.k = "LetS" -> 1 + NumLetS(s.s1) + NumLetS(s.s2)
      [] OTHER -> 0

RECURSIVE Cells(_)
Cells(s) ==
    CASE s.k = "Var" -> {s.cell}
      [] s.k \in {"AddS", "LtS"} -> Cells(s.s1) \cup Cells(s.s2)
      [] s.k = "LetS" -> {s.var.cell} \cup Cells(s.s1) \cup Cells(s.s2)
      [] OTHER -> {}

\* The steps: a run of staged tree i, a stage call, an interpret call.
RunStep(i) ==
    /\ Len(staged') = Len(staged)
    /\ i \in 1..Len(staged)
    /\ staged'[i].runs = staged[i].runs + 1
StageStep == Len(staged') = Len(staged) + 1
InterpStep == interp'.n = interp.n + 1

Events(l, ev) == {k \in 1..Len(l) : l[k].ev = ev}

(***************************************************************************)
(* C6  What run changes.                                                   *)
(***************************************************************************)
\* C6: a run call leaves var_counter, the set of cells and their ids and
\* every staged tree as they are, and changes the content only of cells of
\* staged Lets of the tree it runs; each staged Let's cell holds the value
\* of its staged bound expression when its body starts.
C6_RunFrame ==
    [][\A i \in 1..Len(staged) : RunStep(i) =>
        /\ var_counter' = var_counter
        /\ Len(heap') = Len(heap)
        /\ \A c \in 1..Len(heap) : heap'[c].id = heap[c].id
        /\ \A j \in 1..Len(staged) : staged'[j].tree = staged[j].tree
        /\ \A c \in 1..Len(heap) :
              c \notin LetCells(staged[i].tree) => heap'[c] = heap[c]
        /\ \A k \in Events(log', "body") :
              /\ k > 1
              /\ log'[k-1].ev = "replace"
              /\ log'[k-1].cell = log'[k].cell
              /\ log'[k-1].val = log'[k].val
        /\ (staged[i].tree.k = "LetS" /\ pc' = "ready") =>
              heap'[staged[i].tree.var.cell].val = run(staged[i].tree.s1, M).r
      ]_vars

C6_Witness ==
    /\ prog = NestedExp
    /\ last.op = "run"
    /\ Len(staged) = 1
    /\ heap[staged[1].tree.var.cell].val = NumVal(1)
    /\ Cardinality(Events(log, "replace")) = 2
    /\ var_counter = 2

C8_StageOnlyAllocates ==
    /\ [](\A i \in 1..Len(staged) : staged[i].runs = 0 =>
            \A c \in LetCells(staged[i].tree) :
                heap[c].val \in {NumVal(0), BoolVal(FALSE)})
    /\ [][StageStep =>
            /\ Len(heap') = Len(heap) + NumLets(prog)
            /\ var_counter' = var_counter + NumLets(prog)
            /\ \A c \in 1..Len(heap) : heap'[c] = heap[c]
            /\ LetCells(staged'[Len(staged')].tree) = (Len(heap) + 1)..Len(heap')
            /\ \A c \in (Len(heap) + 1)..Len(heap') :
                  heap'[c].val \in {NumVal(0), BoolVal(FALSE)}
            /\ prog.k = "Let" =>
                  heap'[staged'[Len(staged')].tree.var.cell].val =
                      (IF prog.ty = "Num" THEN NumVal(0) ELSE BoolVal(FALSE))
            /\ Events(log', "replace") = {}
         ]_vars

C8_Witness ==
    /\ prog = Let58Exp
    /\ last.op = "stage"
    /\ Len(staged) = 2
    /\ heap[staged[1].tree.var.cell].val = NumVal(5)
    /\ heap[staged[2].tree.var.cell].val = NumVal(0)

(***************************************************************************)
(* C9  What interpret does on a Let.                                       *)
(***************************************************************************)
\* C9: an interpret call, for each Let it goes through, interprets the bound
\* expression, allocates a cell holding that value, invokes the binder
\* function on that cell and then interprets the body, in this order; it
\* writes to no cell afterwards and leaves the earlier cells alone; each
\* completed call invokes every binder function once more and allocates one
\* more cell per Let.
C9_InterpretSequence ==
    /\ [](pc = "ready" =>
            /\ \A b \in BidsOf(prog) : binder_calls[b] = interp.n + Len(staged)
            /\ Len(heap) = NumLets(prog) * (interp.n + Len(staged)))
    /\ [][InterpStep =>
            /\ \A k \in Events(log', "bound") :
                  /\ k + 3 =< Len(log')
                  /\ log'[k+1].ev = "alloc"
                  /\ log'[k+1].val = log'[k].val
                  /\ log'[k+2].ev = "invoke"
                  /\ log'[k+2].bid = log'[k].bid
                  /\ log'[k+2].cell = log'[k+1].cell
                  /\ log'[k+3].ev = "body"
                  /\ log'[k+3].bid = log'[k].bid
                  /\ log'[k+3].val = log'[k].val
            /\ \A k \in Events(log', "alloc") :
                  /\ log'[k].cell > Len(heap)
                  /\ heap'[log'[k].cell].val = log'[k].val
                  /\ k > 1 /\ log'[k-1].ev = "bound"
            /\ Events(log', "replace") = {}
            /\ \A c \in 1..Len(heap) : heap'[c] = heap[c]
            /\ pc' = "ready" =>
                  /\ Cardinality(Events(log', "bound")) = NumLets(prog)
                  /\ Len(heap') = Len(heap) + NumLets(prog)
                  /\ \A b \in BidsOf(prog) : binder_calls'[b] = binder_calls[b] + 1
         ]_vars

C9_Witness ==
    /\ prog = NestedExp
    /\ interp.n = 2
    /\ pc = "ready"
    /\ Len(heap) = 4
    /\ \A b \in BidsOf(prog) : binder_calls[b] = 2
    /\ <<heap[3].val, heap[4].val>> = <<NumVal(1), NumVal(2)>>

(***************************************************************************)
(* C10  What the binder function finds in its variable.                    *)
(***************************************************************************)
\* C10 as stated: whenever a binder function is invoked, by interpret or by
\* stage, the cell of its variable holds the default of the value kind.
C10_BinderSeesDefault ==
    \A k \in Events(log, "invoke") : log[k].val = Default(log[k].val.kind)

\* C10 amended: invoked by stage, the binder function finds the default in
\* its variable; invoked by interpret, it finds the value of the bound
\* expression; a binder function that reads the variable while it builds the
\* body (let v = 5 in v + read(v)) gives 10 interpreted and 5 staged.
C10_BinderSeesByMode ==
    /\ last.op = "stage" =>
          \A k \in Events(log, "invoke") : log[k].val = Default(log[k].val.kind)
    /\ last.op = "interpret" =>
          \A k \in Events(log, "invoke") :
              /\ k > 2
              /\ log[k-2].ev = "bound"
              /\ log[k-2].bid = log[k].bid
              /\ log[k].val = log[k-2].val
    /\ prog = ReadExp =>
          /\ interp.results \subseteq {NumVal(10)}
          /\ RunResults \subseteq {NumVal(5)}

C10_Witness ==
    /\ prog = ReadExp
    /\ interp.results = {NumVal(10)}
    /\ RunResults = {NumVal(5)}

====
